---- MODULE Spec2Model ----
(***************************************************************************)
(* Model of the zammad-ticket-fetcher pipeline: the /get_ticket_data       *)
(* endpoint (app/main.py), the Zammad client (app/services/                *)
(* zammad_client.py), the request schemas (app/schemas.py) and the CSV     *)
(* sink (app/utils/csv_writer.py).                                         *)
(*                                                                         *)
(* JSON values received from the remote are tagged records: a key that is  *)
(* missing is "absent", a JSON null is "null".  Python values are tagged   *)
(* records too, with None as "none".  A string is kept as its leading      *)
(* whitespace count, its core (no whitespace at either end) and its        *)
(* trailing whitespace count, so that str.strip() is a real conversion.    *)
(***************************************************************************)
EXTENDS Integers, Sequences, FiniteSets, TLC

-----------------------------------------------------------------------------
\* Bounds of the model and constants of the program.

\* Longest date range (in days) among the valid requests that are enumerated.
MaxDays == 2

\* ZammadClient.limit: the page size of the ticket search.
limit == 50

\* stop_after_attempt(2) of the retry decorator.
stop_after_attempt == 2

\* wait_fixed(1): seconds between two attempts.
wait_fixed == 1

\* rps_delay = 1.0 / 3.0: the client sleeps 1/RpsPerSecond s after a success.
RpsPerSecond == 3

-----------------------------------------------------------------------------
\* Values.

None == [t |-> "none"]
Int_(n) == [t |-> "int", v |-> n]
Str(l, c, r) == [t |-> "str", lead |-> l, core |-> c, trail |-> r]
S(c) == Str(0, c, 0)

JAbsent == [t |-> "absent"]
JNull == [t |-> "null"]

\* dict.get(key, default) on a parsed JSON object: the default only replaces
\* a missing key; a JSON null comes back as None.
Get(jv, default) ==
    IF jv.t = "absent" THEN default
    ELSE IF jv.t = "null" THEN None
    ELSE jv

\* len(s) = 0 for a str value.
IsEmptyStr(s) == s.lead = 0 /\ s.core = "" /\ s.trail = 0

\* str.strip(): whitespace removed at both ends.
Strip(s) == Str(0, s.core, 0)

\* Python truthiness of a value: None, "" and 0 are falsy.
Truthy(pv) ==
    CASE pv.t = "none" -> FALSE
      [] pv.t = "str"  -> ~IsEmptyStr(pv)
      [] pv.t = "int"  -> pv.v # 0
      [] OTHER         -> TRUE

IgnoredTitle == "Undelivered Mail Returned to Sender"
NoTitle == "No Title"
UnknownSender == "Unknown"

-----------------------------------------------------------------------------
\* Calendar dates.  A date string is kept as the digit counts of its three
\* fields and their numeric values; "2025-2-01" is [w |-> <<4,1,2>>, ...].

DateStr(wy, wm, wd, y, m, d) == [w |-> <<wy, wm, wd>>, y |-> y, m |-> m, d |-> d]
Iso(y, m, d) == DateStr(4, 2, 2, y, m, d)

IsLeap(y) == (y % 4 = 0) /\ ((y % 100 # 0) \/ (y % 400 = 0))

DaysInMonth(y, m) ==
    IF m = 2 THEN (IF IsLeap(y) THEN 29 ELSE 28)
    ELSE IF m \in {4, 6, 9, 11} THEN 30 ELSE 31

\* re.match(r"^\d{4}-\d{2}-\d{2}$", v)
MatchesDatePattern(s) == s.w = <<4, 2, 2>>

\* datetime.strptime(v, "%Y-%m-%d") succeeds.
StrptimeOk(s) ==
    /\ s.y >= 1 /\ s.y <= 9999
    /\ s.m >= 1 /\ s.m <= 12
    /\ s.d >= 1 /\ s.d <= DaysInMonth(s.y, s.m)

\* TicketQuery.validate_date_format: the error it raises, or "ok".
validate_date_format(s) ==
    IF ~MatchesDatePattern(s) THEN "Date must be in YYYY-MM-DD format"
    ELSE IF ~StrptimeOk(s) THEN "Invalid date: use YYYY-MM-DD"
    ELSE "ok"

\* a > b on two strings of the form dddd-dd-dd (lexicographical compare).
StrGreater(a, b) ==
    \/ a.y > b.y
    \/ a.y = b.y /\ a.m > b.m
    \/ a.y = b.y /\ a.m = b.m /\ a.d > b.d

\* TicketQuery.validate_date_range
validate_date_range(s, e) ==
    IF StrGreater(s, e) THEN "start_date must be before or equal to end_date"
    ELSE "ok"

\* TicketQuery(start_date=..., end_date=...): field validators, then the
\* model validator when both fields passed.
TicketQuery(s, e) ==
    IF validate_date_format(s) # "ok" \/ validate_date_format(e) # "ok"
    THEN "ValidationError"
    ELSE IF validate_date_range(s, e) # "ok" THEN "ValidationError"
    ELSE "ok"

\* datetime.strptime(...) of a validated string: the date <<y, m, d>>.
Strptime(s) == <<s.y, s.m, s.d>>

\* current.strftime("%Y-%m-%d")
Strftime(dt) == Iso(dt[1], dt[2], dt[3])

\* Variant: while current < end, which leaves the end date out.
DateLess(a, b) ==
    \/ a[1] < b[1]
    \/ a[1] = b[1] /\ a[2] < b[2]
    \/ a[1] = b[1] /\ a[2] = b[2] /\ a[3] < b[3]

\* current <= end on datetimes.
DateLeq(a, b) ==
    \/ a[1] < b[1]
    \/ a[1] = b[1] /\ a[2] < b[2]
    \/ a[1] = b[1] /\ a[2] = b[2] /\ a[3] <= b[3]

\* current + timedelta(days=1) overflows past 9999-12-31.
AddDayOverflows(dt) == dt = <<9999, 12, 31>>

\* current + timedelta(days=1)
AddDay(dt) ==
    IF dt[3] < DaysInMonth(dt[1], dt[2]) THEN <<dt[1], dt[2], dt[3] + 1>>
    ELSE IF dt[2] < 12 THEN <<dt[1], dt[2] + 1, 1>>
    ELSE <<dt[1] + 1, 1, 1>>

\* Proleptic Gregorian ordinal of a date (day 1 is 0001-01-01); used to state
\* properties of the range loop, not by the loop itself.
DaysBeforeYear(y) == (y - 1) * 365 + (y - 1) \div 4 - (y - 1) \div 100 + (y - 1) \div 400

RECURSIVE DaysBeforeMonth(_, _)
DaysBeforeMonth(y, m) ==
    IF m = 1 THEN 0 ELSE DaysBeforeMonth(y, m - 1) + DaysInMonth(y, m - 1)

Ordinal(dt) == DaysBeforeYear(dt[1]) + DaysBeforeMonth(dt[1], dt[2]) + dt[3]

-----------------------------------------------------------------------------
\* ZammadClient._make_request and its retry decorator.

\* What the transport does on one attempt.
Outcomes == {"ok", "http_error", "timeout", "connect_error", "decode_error"}

\* One outcome for each attempt the decorator may make.
Scripts == [1..stop_after_attempt -> Outcomes]

Methods == {"GET", "get", "POST"}

\* method.upper()
Upper(m) ==
    CASE m = "get"  -> "GET"
      [] m = "post" -> "POST"
      [] OTHER      -> m

\* The exception classes that are subclasses of ValueError
\* (json.JSONDecodeError and pydantic's ValidationError are).
IsValueError(e) == e \in {"ValueError", "JSONDecodeError", "ValidationError"}

\* One execution of the body of _make_request: client.get, raise_for_status,
\* response.json(), _rate_limit.  "sent" tells whether client.get was called,
\* "slept" whether _rate_limit ran.
BodyOfMakeRequest(method, outcome, payload) ==
    IF Upper(method) # "GET"
    THEN [ok |-> FALSE, exc |-> "ValueError", data |-> None, sent |-> FALSE, slept |-> FALSE]
    ELSE CASE outcome = "ok" ->
                [ok |-> TRUE, exc |-> "none", data |-> payload, sent |-> TRUE, slept |-> TRUE]
           [] outcome = "http_error" ->
                [ok |-> FALSE, exc |-> "HTTPStatusError", data |-> None, sent |-> TRUE, slept |-> FALSE]
           [] outcome = "timeout" ->
                [ok |-> FALSE, exc |-> "TimeoutException", data |-> None, sent |-> TRUE, slept |-> FALSE]
           [] outcome = "connect_error" ->
                [ok |-> FALSE, exc |-> "ConnectError", data |-> None, sent |-> TRUE, slept |-> FALSE]
           [] outcome = "decode_error" ->
                [ok |-> FALSE, exc |-> "JSONDecodeError", data |-> None, sent |-> TRUE, slept |-> FALSE]

\* Variant: retry=retry_if_exception_type(Exception), every failure is retried.
RetryOnAnyException(e) == TRUE

\* retry=retry_if_exception_type((httpx.HTTPStatusError, httpx.TimeoutException))
retry_if_exception_type(e) == e \in {"HTTPStatusError", "TimeoutException"}

\* Variant: stop=stop_after_attempt(1), no attempt after the first.
StopAfterFirstAttempt(n) == n >= 1

\* stop=stop_after_attempt(2): no further attempt once this many were made.
StopNow(n) == n >= stop_after_attempt

\* reraise=True: the exception of the last attempt is raised, not RetryError.
Reraise(e) == e

\* Variant: self._rate_limit() in a finally clause, run after every
\* transport call.
TraceAfterRateLimitAlways(trace, n, a) ==
    trace \o (IF a.sent THEN <<<<"send", n>>>> ELSE <<>>)
          \o (IF a.ok THEN <<>> ELSE <<<<"fail", n>>>>)
          \o (IF a.sent THEN <<<<"rate_limit", n>>>> ELSE <<>>)

\* The trace after one execution `a` of the body as attempt n.
\* Events: <<"send", n>>, <<"fail", n>>, <<"rate_limit", n>>.
TraceAfter(trace, n, a) ==
    trace \o (IF a.sent THEN <<<<"send", n>>>> ELSE <<>>)
          \o (IF a.ok THEN <<>> ELSE <<<<"fail", n>>>>)
          \o (IF a.slept THEN <<<<"rate_limit", n>>>> ELSE <<>>)

\* What the decorator does once attempt n has ended as `a`: return, raise, or
\* wait (event <<"wait", n>>) and make another attempt.
RECURSIVE Retrying(_, _, _, _, _)
AfterAttempt(method, script, payload, n, trace, a) ==
    IF a.ok
    THEN [ok |-> TRUE, exc |-> "none", data |-> a.data, attempts |-> n, trace |-> trace]
    ELSE IF ~retry_if_exception_type(a.exc)
    THEN [ok |-> FALSE, exc |-> a.exc, data |-> None, attempts |-> n, trace |-> trace]
    ELSE IF StopNow(n)
    THEN [ok |-> FALSE, exc |-> Reraise(a.exc), data |-> None, attempts |-> n, trace |-> trace]
    ELSE Retrying(method, script, payload, n + 1, Append(trace, <<"wait", n>>))

AttemptDone(method, script, payload, n, trace, a) ==
    AfterAttempt(method, script, payload, n, TraceAfter(trace, n, a), a)

\* The decorated _make_request from attempt n on.
Retrying(method, script, payload, n, trace) ==
    AttemptDone(method, script, payload, n, trace,
                BodyOfMakeRequest(method, script[n], payload))

RequestRecord(method, endpoint, params, script, r) ==
    [method |-> method, endpoint |-> endpoint, params |-> params,
     script |-> script, ok |-> r.ok, exc |-> r.exc, data |-> r.data,
     attempts |-> r.attempts, trace |-> r.trace]

\* _make_request(method, endpoint, params) against a transport that behaves
\* as `script` says and answers `payload` when it succeeds.  The result
\* records the call it answers.
_make_request(method, endpoint, params, script, payload) ==
    RequestRecord(method, endpoint, params, script,
                  Retrying(method, script, payload, 1, <<>>))

\* The time a trace event sleeps, in units of 1/RpsPerSecond second:
\* time.sleep(self.rps_delay) for "rate_limit", wait_fixed seconds for "wait".
SleepOf(ev) ==
    CASE ev[1] = "rate_limit" -> 1
      [] ev[1] = "wait"       -> wait_fixed * RpsPerSecond
      [] OTHER                -> 0

\* The time slept from event i of a trace to its end.
RECURSIVE Slept(_, _)
Slept(trace, i) ==
    IF i > Len(trace) THEN 0 ELSE SleepOf(trace[i]) + Slept(trace, i + 1)

\* Number of events of one kind in a trace.
CountEv(trace, kind) == Cardinality({i \in 1..Len(trace) : trace[i][1] = kind})

NoRequest == [method |-> "", endpoint |-> "", params |-> None,
              script |-> <<>>, ok |-> FALSE, exc |-> "none", data |-> None,
              attempts |-> 0, trace |-> <<>>]

-----------------------------------------------------------------------------
\* The remote API.  Its answers are fixed by the response shape it uses, a
\* data profile, and the number of tickets it holds for the day asked.

Shapes == {"records", "assets", "list"}
Profiles == {"plain", "mixed", "nulltitle", "nullcount"}

\* Numbers of tickets a day may hold: none, less than a page, exactly one
\* page, one page and one ticket.
Totals == {0, 1, limit, limit + 1}

RawTicket(id, title, state_id, article_count) ==
    [id |-> id, title |-> title, state_id |-> state_id, article_count |-> article_count]

PlainTicket(n) == RawTicket(Int_(n), S("Printer is broken"), Int_(2), Int_(2))

\* The i-th ticket of day number dayNo, as the remote holds it.
RemoteTicket(prof, dayNo, i) ==
    LET n == dayNo * 100 + i
        k == (i - 1) % 12
    IN  CASE prof = "plain" -> PlainTicket(n)
          [] prof = "nulltitle" ->
                IF i = limit + 1
                THEN RawTicket(Int_(n), JNull, Int_(2), Int_(1))
                ELSE PlainTicket(n)
          [] prof = "nullcount" ->
                IF i = 2
                THEN RawTicket(Int_(n), S("Invoice"), Int_(4), JNull)
                ELSE PlainTicket(n)
          [] prof = "mixed" ->
                CASE k = 0  -> PlainTicket(n)
                  [] k = 1  -> RawTicket(Int_(n), S(IgnoredTitle), Int_(2), Int_(1))
                  [] k = 2  -> RawTicket(Int_(n), Str(1, IgnoredTitle, 0), Int_(2), Int_(1))
                  [] k = 3  -> RawTicket(Int_(n), S("undelivered mail returned to sender"), Int_(2), Int_(1))
                  [] k = 4  -> RawTicket(Int_(n), S(""), Int_(1), Int_(3))
                  [] k = 5  -> RawTicket(Int_(n), Str(2, "", 0), Int_(1), Int_(0))
                  [] k = 6  -> RawTicket(Int_(n), JAbsent, Int_(1), Int_(2))
                  [] k = 7  -> RawTicket(JAbsent, S("No id here"), Int_(1), Int_(2))
                  [] k = 8  -> RawTicket(JNull, S(""), Int_(1), Int_(2))
                  [] k = 9  -> RawTicket(Int_(n), Str(0, "Padded", 2), JAbsent, JAbsent)
                  [] k = 10 -> RawTicket(JAbsent, S(IgnoredTitle), Int_(2), Int_(1))
                  [] k = 11 -> RawTicket(Int_(n), S("Re: Undelivered Mail Returned to Sender"), JNull, Int_(0))

\* All tickets the remote holds for the day, in the order it serves them.
RemoteTickets(prof, dayNo, total) == [i \in 1..total |-> RemoteTicket(prof, dayNo, i)]

Min(a, b) == IF a < b THEN a ELSE b

\* The items of page `page` (pages of `lim` items).
PageSlice(all, page, lim) ==
    LET lo == (page - 1) * lim + 1
        hi == Min(page * lim, Len(all))
    IN  IF lo > hi THEN <<>> ELSE SubSeq(all, lo, hi)

ListPayload(items) == [type |-> "list", keys |-> {}, items |-> items, total |-> 0]

\* The body of a successful search response, in the remote's shape.
SearchPayload(shp, items, total) ==
    CASE shp = "records" ->
            [type |-> "dict", keys |-> {"records", "total_count"},
             items |-> items, total |-> total]
      [] shp = "assets" ->
            [type |-> "dict", keys |-> {"tickets", "tickets_count", "assets"},
             items |-> items, total |-> total]
      [] shp = "list" -> ListPayload(items)

\* GET /api/v1/tickets/search with these parameters, answered by the remote.
RemoteSearch(shp, prof, dayNo, total, params) ==
    SearchPayload(shp, PageSlice(RemoteTickets(prof, dayNo, total), params.page, params.limit), total)

RawArticle(from, from_field, body) == [from |-> from, from_field |-> from_field, body |-> body]

\* What the remote does with GET /api/v1/ticket_articles/by_ticket/{id}:
\* the transport outcomes of the attempts and the body of a success.
ArticleKind(prof, id) ==
    IF prof = "mixed" THEN ((id % 100) - 1) % 11
    ELSE IF prof = "nullcount" /\ id % 100 = 2 THEN 2
    ELSE 0

ArticleScript(prof, id) ==
    LET k == ArticleKind(prof, id)
    IN  CASE k = 2  -> [n \in 1..stop_after_attempt |-> "http_error"]
          [] k = 3  -> [n \in 1..stop_after_attempt |-> IF n = 1 THEN "timeout" ELSE "ok"]
          [] k = 6  -> [n \in 1..stop_after_attempt |-> "decode_error"]
          [] k = 7  -> [n \in 1..stop_after_attempt |-> "connect_error"]
          [] k = 10 -> [n \in 1..stop_after_attempt |-> IF n = 1 THEN "http_error" ELSE "timeout"]
          [] OTHER  -> [n \in 1..stop_after_attempt |-> "ok"]

ArticlePayload(prof, id) ==
    LET k == ArticleKind(prof, id)
    IN  CASE k = 0 -> ListPayload(<<RawArticle(S("agent@example.com"), JAbsent, S("Hello")),
                                    RawArticle(S("customer@example.com"), JAbsent, S("Thanks"))>>)
          [] k = 1 -> ListPayload(<<RawArticle(S("agent@example.com"), JAbsent, S("")),
                                    RawArticle(JAbsent, JAbsent, S("Body only")),
                                    RawArticle(S("customer@example.com"), JAbsent, JAbsent)>>)
          [] k = 3 -> ListPayload(<<RawArticle(S("agent@example.com"), JAbsent, S("Late answer"))>>)
          [] k = 4 -> [type |-> "dict", keys |-> {"error"}, items |-> <<>>, total |-> 0]
          [] k = 5 -> ListPayload(<<RawArticle(S("agent@example.com"), JAbsent, S("Fine")),
                                    RawArticle(S("agent@example.com"), JAbsent, Int_(7))>>)
          [] k = 8 -> ListPayload(<<>>)
          [] k = 9 -> ListPayload(<<RawArticle(S("agent@example.com"), JAbsent, JNull),
                                    RawArticle(S("agent@example.com"), JAbsent, Str(2, "", 0)),
                                    RawArticle(S(""), S(""), S("Empty sender")),
                                    RawArticle(S("agent@example.com"), S("Agent Smith"), S("Named"))>>)
          [] OTHER -> ListPayload(<<>>)

-----------------------------------------------------------------------------
\* ZammadClient: the ticket pager.

\* The endpoint of get_tickets_for_date.
SearchEndpoint == "/api/v1/tickets/search"

\* The request parameters of get_tickets_for_date; use_range is accepted and
\* not used.
SearchParams(date_str, page, use_range) ==
    [query |-> <<"created_at:", date_str>>, limit |-> limit, page |-> page]

\* TicketSearchResponse.model_validate(data): TicketSearchResponse is a
\* BaseModel with one field `root`, so only a mapping with a `root` key
\* validates; a list never does.
TicketSearchResponseValidates(data) == data.type = "dict" /\ "root" \in data.keys

\* TicketRecord.model_dump(): every field is present, None when it was missing.
ModelDump(rec) ==
    [f \in DOMAIN rec |-> IF rec[f].t = "absent" THEN JNull ELSE rec[f]]

\* The part of get_tickets_for_date after _make_request returned `data`.
TicketsOfResponse(data) ==
    IF data.type # "list" THEN <<>>
    ELSE IF TicketSearchResponseValidates(data)
         THEN [i \in 1..Len(data.items) |-> ModelDump(data.items[i])]
         ELSE data.items

\* Variant: the title is compared with the phrase in lower case.
IsIgnoredTitleWrongCase(title) == title = S("undelivered mail returned to sender")

\* title == "Undelivered Mail Returned to Sender"
IsIgnoredTitle(title) == title = S(IgnoredTitle)

\* The ticket kept for `record`, whose stripped title is `stripped`.
Filtered(record, stripped) ==
    [id |-> Get(record.id, None),
     state |-> Get(record.state_id, None),
     title |-> IF Truthy(stripped) THEN stripped ELSE S(NoTitle),
     article_count |-> Get(record.article_count, Int_(0))]

\* The filter of one record once record.get("title", "") returned `got`.
FilterTitle(record, got) ==
    IF got.t # "str"
    THEN [act |-> "raise", exc |-> "AttributeError", ticket |-> None]
    ELSE IF IsIgnoredTitle(Strip(got))
    THEN [act |-> "skip", exc |-> "none", ticket |-> None]
    ELSE IF Get(record.id, None) = None
    THEN [act |-> "skip", exc |-> "none", ticket |-> None]
    ELSE [act |-> "keep", exc |-> "none", ticket |-> Filtered(record, Strip(got))]

\* One iteration of the filter loop of fetch_all_tickets_for_date on `record`:
\* "raise" (None has no strip), "skip" or "keep" with the filtered ticket.
FilterRecord(record) == FilterTitle(record, Get(record.title, S("")))

\* filtered_page.append(filtered) was reached for the record filtered as `f`.
IsKept(f) == f.act = "keep"

\* filtered_page, from the iterations that appended to it.
FilteredPage(kept) == [i \in 1..Len(kept) |-> kept[i].ticket]

\* The iterations of the filter loop that are made, given the results `fs` of
\* all of them: up to the first one that raises, or all.
FilterStop(fs) ==
    IF \E i \in 1..Len(fs) : fs[i].act = "raise"
    THEN CHOOSE i \in 1..Len(fs) :
            fs[i].act = "raise" /\ \A j \in 1..(i - 1) : fs[j].act # "raise"
    ELSE Len(fs)

\* The filter loop that stops after n iterations.
FilterLoop(fs, n) ==
    IF n > 0 /\ fs[n].act = "raise"
    THEN [exc |-> fs[n].exc,
          filtered_page |-> FilteredPage(SelectSeq(SubSeq(fs, 1, n - 1), IsKept))]
    ELSE [exc |-> "none", filtered_page |-> FilteredPage(SelectSeq(fs, IsKept))]

FilterRecords(fs) == FilterLoop(fs, FilterStop(fs))

\* The filter loop over page_data: the exception it raises ("none" when it
\* completes) and filtered_page.
FilterPage(page_data) ==
    FilterRecords([i \in 1..Len(page_data) |-> FilterRecord(page_data[i])])

-----------------------------------------------------------------------------
\* ZammadClient: the article fetcher and the day processor.

ArticlesEndpoint(ticket_id) == <<"/api/v1/ticket_articles/by_ticket/", ticket_id>>

\* TicketArticlesResponse.model_validate(data) succeeds: body and from_field
\* are Optional[str].
IsOptionalStr(jv) == jv.t \in {"absent", "null", "str"}

TicketArticlesResponseValidates(data) ==
    \A i \in 1..Len(data.items) :
        IsOptionalStr(data.items[i].body) /\ IsOptionalStr(data.items[i].from_field)

\* A parsed TicketArticle: the model has no field named `from`, so the `from`
\* key of the payload is ignored and from_field is filled from a key of its
\* own name only.
ParseArticle(raw) ==
    [from_field |-> Get(raw.from_field, None), body |-> Get(raw.body, None)]

\* article.from_field or "Unknown"
FromOrUnknown(from_field) == IF Truthy(from_field) THEN from_field ELSE S(UnknownSender)

\* Variant: if article.body is not None, which keeps an empty body.
KeepArticleUnlessNone(article) == article.body.t # "none"

\* if article.body:
KeepArticle(article) == Truthy(article.body)

FilteredArticle(article) ==
    [from |-> FromOrUnknown(article.from_field), body |-> article.body]

RECURSIVE FilterArticles(_, _, _)
FilterArticle(items, i, filtered_articles, article) ==
    IF KeepArticle(article)
    THEN FilterArticles(items, i + 1, Append(filtered_articles, FilteredArticle(article)))
    ELSE FilterArticles(items, i + 1, filtered_articles)

\* The loop of get_articles_for_ticket over articles_resp.root[i..].
FilterArticles(items, i, filtered_articles) ==
    IF i > Len(items) THEN filtered_articles
    ELSE FilterArticle(items, i, filtered_articles, ParseArticle(items[i]))

\* The except clause of get_articles_for_ticket: every Exception becomes [].
ArticlesOnError(e) == [raised |-> "none", articles |-> <<>>]

\* get_articles_for_ticket, given the result `r` of its _make_request call.
\* Logging the non-list payload slices it (data[:200]), which raises for a
\* dict; that exception is caught like any other.
ArticlesOfResult(r) ==
    IF ~r.ok THEN ArticlesOnError(r.exc)
    ELSE IF r.data.type # "list" THEN ArticlesOnError("TypeError")
    ELSE IF ~TicketArticlesResponseValidates(r.data) THEN ArticlesOnError("ValidationError")
    ELSE [raised |-> "none", articles |-> FilterArticles(r.data.items, 1, <<>>)]

ArticlesResult(r, a) == [request |-> r, raised |-> a.raised, articles |-> a.articles]

ArticlesOfRequest(r) == ArticlesResult(r, ArticlesOfResult(r))

\* get_articles_for_ticket(ticket_id) against the remote: the request it makes
\* and what it returns.
get_articles_for_ticket(prof, ticket_id) ==
    ArticlesOfRequest(_make_request("GET", ArticlesEndpoint(ticket_id), None,
                                    ArticleScript(prof, ticket_id.v),
                                    ArticlePayload(prof, ticket_id.v)))

\* Variant: enumerate(articles), which numbers the columns from 0.
EnrichFromZero(ticket, articles) ==
    [id |-> ticket.id, state |-> ticket.state, title |-> ticket.title,
     article_count |-> ticket.article_count,
     cols |-> [key \in {"from", "body"} \X (0..(Len(articles) - 1)) |->
                  IF key[1] = "from" THEN articles[key[2] + 1].from
                  ELSE articles[key[2] + 1].body]]

\* enriched = ticket.copy(); enriched[f"from_{i}"], enriched[f"body_{i}"] for
\* i, art in enumerate(articles, 1).  The added keys are kept in `cols`.
Enrich(ticket, articles) ==
    [id |-> ticket.id, state |-> ticket.state, title |-> ticket.title,
     article_count |-> ticket.article_count,
     cols |-> [key \in {"from", "body"} \X (1..Len(articles)) |->
                  IF key[1] = "from" THEN articles[key[2]].from ELSE articles[key[2]].body]]

\* ticket["article_count"] > 0 raises TypeError when the count is None.
CountCheckRaises(ticket) == ticket.article_count.t # "int"

\* One iteration of the loop of process_day, on `ticket`, once
\* get_articles_for_ticket returned `got`: the exception that ends it, or
\* "none".
IterationResult(ticket, got) ==
    [got |-> got,
     exc |-> IF got.raised # "none" THEN got.raised
             ELSE IF CountCheckRaises(ticket) THEN "TypeError"
             ELSE "none"]

ProcessTicket(prof, ticket) ==
    IterationResult(ticket, get_articles_for_ticket(prof, ticket.id))

\* The iterations made from the results `its` of all of them: up to the first
\* one that raises, or all.
IterationsMade(its) ==
    IF \E i \in 1..Len(its) : its[i].exc # "none"
    THEN CHOOSE i \in 1..Len(its) :
            its[i].exc # "none" /\ \A j \in 1..(i - 1) : its[j].exc = "none"
    ELSE Len(its)

\* The loop of process_day, given its iterations `its` and the number `n` of
\* them that are made, the last one raising `e` unless `e` is "none": the
\* exception that ends the loop, enriched_tickets, the ticket ids passed to
\* get_articles_for_ticket and the requests made, in call order.
LoopOfProcessDay(tickets, its, n, e) ==
    [exc |-> e,
     enriched_tickets |->
         [i \in 1..(IF e = "none" THEN n ELSE n - 1) |->
             Enrich(tickets[i], its[i].got.articles)],
     calls |-> [i \in 1..n |-> tickets[i].id],
     requests |-> [i \in 1..n |-> its[i].got.request]]

ProcessIterations(tickets, its, n) ==
    LoopOfProcessDay(tickets, its, n, IF n = 0 THEN "none" ELSE its[n].exc)

IterationsOf(tickets, its) == ProcessIterations(tickets, its, IterationsMade(its))

\* The loop of process_day over `tickets`.
ProcessTickets(prof, tickets) ==
    IterationsOf(tickets, [i \in 1..Len(tickets) |-> ProcessTicket(prof, tickets[i])])

-----------------------------------------------------------------------------
\* write_tickets_to_csv: the export file as its lines, each a header or a row
\* with its number of columns.

\* len([k for k in t if k.startswith("from_")])
FromCount(t) == Cardinality({key \in DOMAIN t.cols : key[1] = "from"})

\* The article counts of the tickets of a batch.
FromCounts(tickets) == {FromCount(tickets[i]) : i \in 1..Len(tickets)}

\* max(len([k for k in t if k.startswith("from_")]) for t in tickets, default=0)
MaxFromCount(tickets) ==
    CHOOSE m \in FromCounts(tickets) \cup {0} :
        \A n \in FromCounts(tickets) \cup {0} : n <= m

CsvLine(kind, width) == [kind |-> kind, width |-> width]

\* The rows written for a batch whose widest ticket has max_articles articles.
CsvRows(tickets, max_articles) ==
    [i \in 1..Len(tickets) |-> CsvLine("row", 4 + 2 * max_articles)]

WriteRows(file, rows) ==
    IF file.exists
    THEN [exists |-> TRUE, lines |-> file.lines \o rows]
    ELSE [exists |-> TRUE, lines |-> <<CsvLine("header", rows[1].width)>> \o rows]

write_tickets_to_csv(file, tickets) ==
    IF Len(tickets) = 0 THEN file
    ELSE WriteRows(file, CsvRows(tickets, MaxFromCount(tickets)))

-----------------------------------------------------------------------------
\* The requests that are enumerated.

Years == {1900, 2024, 2025, 2026, 9999}

\* Calendar dates around the ends of February and of the year.
CalendarDates ==
    {dt \in Years \X {1, 2, 3, 12} \X {1, 2, 3, 28, 29, 30, 31} :
        dt[3] <= DaysInMonth(dt[1], dt[2])}

Starts == {<<2024, 2, 28>>, <<1900, 2, 28>>, <<2025, 12, 31>>, <<9999, 12, 30>>}

\* Strings that are no date: wrong field widths, or no such day.
BadDates ==
    {DateStr(4, 1, 2, 2025, 2, 1), DateStr(2, 2, 2, 25, 2, 1),
     Iso(2025, 2, 29), Iso(1900, 2, 29), Iso(2025, 13, 1), Iso(2025, 4, 31),
     Iso(0, 1, 1)}

\* The calendar dates k days after s.
DaysAfter(s, ks) == {d \in CalendarDates : Ordinal(d) - Ordinal(s) \in ks}

\* Ranges of at most MaxDays days from a start, ranges with start after end,
\* and pairs with a string that is no date.
Requests ==
    UNION {{<<Strftime(s), Strftime(e)>> : e \in DaysAfter(s, 0..(MaxDays - 1))} : s \in Starts}
    \cup UNION {{<<Strftime(e), Strftime(s)>> : e \in DaysAfter(s, {1})} : s \in Starts}
    \cup {<<b, Iso(2025, 3, 1)>> : b \in BadDates}
    \cup {<<Iso(2025, 2, 28), b>> : b \in BadDates}
    \cup {<<b, b>> : b \in BadDates}

-----------------------------------------------------------------------------
\* The state of one request to GET /get_ticket_data.

VARIABLES
    pc,               \* where the handler is: "request", "range", "paging",
                      \* "articles", "response" ("call"/"returned" for a bare
                      \* _make_request call, "serving" for the event loop,
                      \* "sink" for the export file over several requests)
    start_date,       \* query parameter start_date
    end_date,         \* query parameter end_date
    shape,            \* the response shape the remote uses
    profile,          \* the data profile of the remote
    current,          \* get_ticket_data: current
    end,              \* get_ticket_data: end
    all_data,         \* get_ticket_data: all_data
    total_processed,  \* get_ticket_data: total_processed
    visited,          \* the date_str of every process_day call, in call order
    dayTotal,         \* tickets the remote holds for the day being processed
    all_tickets,      \* fetch_all_tickets_for_date: all_tickets
    page,             \* fetch_all_tickets_for_date: page
    use_range,        \* fetch_all_tickets_for_date: use_range
    pageReqs,         \* the search requests of the day being processed
    tickets,          \* process_day: tickets (the pager's result)
    enriched_tickets, \* process_day: enriched_tickets (what it has built)
    calls,            \* ticket ids passed to get_articles_for_ticket this day
    articleReqs,      \* the article requests of the day being processed
    lastReq,          \* the last _make_request call and its result
    networkUsed,      \* a transport call was made for this request
    exc,              \* the exception that reached the endpoint, or "none"
    status,           \* HTTP status of the response, 0 while there is none
    csv,              \* the export file
    sinkCalls,        \* calls of write_tickets_to_csv
    handlers          \* the event loop: where the handler of each client's
                      \* request is, and the network calls it has made

vars == <<pc, start_date, end_date, shape, profile, current, end, all_data,
          total_processed, visited, dayTotal, all_tickets, page, use_range,
          pageReqs, tickets, enriched_tickets, calls, articleReqs, lastReq,
          networkUsed, exc, status, csv, sinkCalls, handlers>>

\* A request result without the payload it carried, and with the transport
\* outcomes of the attempts that were made only.
Summary(r) ==
    [method |-> r.method, endpoint |-> r.endpoint, params |-> r.params,
     script |-> SubSeq(r.script, 1, r.attempts), ok |-> r.ok, exc |-> r.exc,
     data |-> None, attempts |-> r.attempts, trace |-> r.trace]

NoFile == [exists |-> FALSE, lines |-> <<>>]

\* Clients that may send a request while another one is being served.
MaxClients == 3
Clients == 1..MaxClients

\* A client that has not sent its request.
IdleHandler == [at |-> "idle", calls |-> 0]

InitCommon ==
    /\ current = <<0, 0, 0>>
    /\ end = <<0, 0, 0>>
    /\ all_data = <<>>
    /\ total_processed = 0
    /\ visited = <<>>
    /\ dayTotal = 0
    /\ all_tickets = <<>>
    /\ page = 1
    /\ use_range = TRUE
    /\ pageReqs = <<>>
    /\ tickets = <<>>
    /\ enriched_tickets = <<>>
    /\ calls = <<>>
    /\ articleReqs = <<>>
    /\ networkUsed = FALSE
    /\ exc = "none"
    /\ status = 0
    /\ csv = NoFile
    /\ sinkCalls = 0
    /\ handlers = [c \in Clients |-> IdleHandler]

Init ==
    /\ pc = "request"
    /\ \E rq \in Requests : start_date = rq[1] /\ end_date = rq[2]
    /\ lastReq = NoRequest
    /\ shape \in Shapes
    /\ profile \in Profiles
    /\ InitCommon

\* except ValueError -> 400; except Exception -> 500 (get_ticket_data).
StatusOf(e) == IF IsValueError(e) THEN 400 ELSE 500

\* An exception leaves the try block of get_ticket_data.
Raise(e) ==
    /\ exc' = e
    /\ status' = StatusOf(e)
    /\ pc' = "response"

\* query = TicketQuery(...); start, end = strptime(...)
Validate ==
    /\ pc = "request"
    /\ IF TicketQuery(start_date, end_date) # "ok"
       THEN /\ Raise("ValidationError")
            /\ UNCHANGED <<current, end>>
       ELSE /\ current' = Strptime(start_date)
            /\ end' = Strptime(end_date)
            /\ pc' = "range"
            /\ UNCHANGED <<exc, status>>
    /\ UNCHANGED <<start_date, end_date, shape, profile, all_data, total_processed,
                   visited, dayTotal, all_tickets, page, use_range, pageReqs,
                   tickets, enriched_tickets, calls, articleReqs, lastReq,
                   networkUsed, csv, sinkCalls, handlers>>

\* while current <= end: client.process_day(date_str) is entered, and
\* fetch_all_tickets_for_date with it.  The remote holds dayTotal tickets.
BeginDay ==
    /\ pc = "range"
    /\ DateLeq(current, end)
    /\ \E total \in Totals : dayTotal' = total
    /\ visited' = Append(visited, Strftime(current))
    /\ all_tickets' = <<>>
    /\ page' = 1
    /\ use_range' = TRUE
    /\ pageReqs' = <<>>
    /\ tickets' = <<>>
    /\ enriched_tickets' = <<>>
    /\ calls' = <<>>
    /\ articleReqs' = <<>>
    /\ pc' = "paging"
    /\ UNCHANGED <<start_date, end_date, shape, profile, current, end, all_data,
                   total_processed, lastReq, networkUsed, exc, status, csv,
                   sinkCalls, handlers>>

\* Variant: if use_range, which takes the fallback on any empty page of the
\* initial query.
TakesFallbackOnAnyEmptyPage(pg, rng) == rng

\* Variant: if page == 1, which takes the fallback again after the fallback.
TakesFallbackOnAnyFirstPage(pg, rng) == pg = 1

\* if use_range and page == 1: the first page of the day-exact query is empty.
TakesFallback(pg, rng) == rng /\ pg = 1

\* if len(page_data) < self.limit: break
IsLastPage(page_data) == Len(page_data) < limit

\* page += 1
NextPage(pg) == pg + 1

\* Upper bound on the search requests of one day that are followed.
MaxPageRequests == 4

\* The loop variables after an iteration: what the loop does next ("again" or
\* "break"), or the exception raised.
LoopState(e, nxt, pg, rng, acc) ==
    [exc |-> e, next |-> nxt, page |-> pg, use_range |-> rng, all_tickets |-> acc]

\* The iteration on a non-empty page once the filter loop ended as `f`.
AfterFilter(page_data, pg, rng, acc, f) ==
    IF f.exc # "none" THEN LoopState(f.exc, "break", pg, rng, acc)
    ELSE IF IsLastPage(page_data)
    THEN LoopState("none", "break", pg, rng, acc \o f.filtered_page)
    ELSE LoopState("none", "again", NextPage(pg), rng, acc \o f.filtered_page)

\* One iteration of the while loop of fetch_all_tickets_for_date, given the
\* page_data that get_tickets_for_date returned.
LoopIteration(page_data, pg, rng, acc) ==
    IF Len(page_data) = 0
    THEN IF TakesFallback(pg, rng)
         THEN LoopState("none", "again", 1, FALSE, acc)
         ELSE LoopState("none", "break", pg, rng, acc)
    ELSE AfterFilter(page_data, pg, rng, acc, FilterPage(page_data))

\* The effect of one loop iteration that ended as `it`.
ApplyIteration(it) ==
    IF it.exc # "none"
    THEN /\ Raise(it.exc)
         /\ UNCHANGED <<all_tickets, page, use_range, tickets>>
    ELSE /\ all_tickets' = it.all_tickets
         /\ page' = it.page
         /\ use_range' = it.use_range
         /\ IF it.next = "break"
            THEN /\ tickets' = it.all_tickets
                 /\ pc' = "articles"
            ELSE /\ pc' = "paging"
                 /\ UNCHANGED tickets
         /\ UNCHANGED <<exc, status>>

\* The effect of the search request `r` of one loop iteration.
ApplyPage(r) ==
    /\ lastReq' = Summary(r)
    /\ pageReqs' = Append(pageReqs, [params |-> r.params, use_range |-> use_range])
    /\ networkUsed' = TRUE
    /\ IF ~r.ok
       THEN /\ Raise(r.exc)
            /\ UNCHANGED <<all_tickets, page, use_range, tickets>>
       ELSE \E page_data \in {TicketsOfResponse(r.data)} :
            \E it \in {LoopIteration(page_data, page, use_range, all_tickets)} :
                ApplyIteration(it)

\* get_tickets_for_date(date_str, page, use_range): the request it makes, with
\* the remote's answer.
SearchRequest(params, script) ==
    _make_request("GET", SearchEndpoint, params, script,
                  RemoteSearch(shape, profile, Len(visited), dayTotal, params))

\* One iteration of the loop of fetch_all_tickets_for_date: a page is
\* requested (get_tickets_for_date), filtered and accumulated.  When the loop
\* breaks, fetch_all_tickets_for_date returns all_tickets to process_day.
FetchPage ==
    /\ pc = "paging"
    /\ Len(pageReqs) < MaxPageRequests
    /\ \E script \in Scripts :
       \E r \in {SearchRequest(SearchParams(visited[Len(visited)], page, use_range), script)} :
          ApplyPage(r)
    /\ UNCHANGED <<start_date, end_date, shape, profile, current, end, all_data,
                   total_processed, visited, dayTotal, enriched_tickets, calls,
                   articleReqs, csv, sinkCalls, handlers>>

\* Variant: the day's tickets are put in front of the batch.
ExtendAtFront(batch, day_tickets) == day_tickets \o batch

\* all_data.extend(day_tickets)
Extend(batch, day_tickets) == batch \o day_tickets

\* The effect of the article loop of process_day that ended as `r`, and of the
\* rest of the body of the range loop.
ApplyDay(r) ==
    /\ calls' = r.calls
    /\ enriched_tickets' = r.enriched_tickets
    /\ articleReqs' = [i \in 1..Len(r.requests) |-> Summary(r.requests[i])]
    /\ lastReq' = IF Len(r.requests) = 0 THEN lastReq
                  ELSE Summary(r.requests[Len(r.requests)])
    /\ networkUsed' = (networkUsed \/ Len(r.requests) > 0)
    /\ IF r.exc # "none"
       THEN /\ Raise(r.exc)
            /\ UNCHANGED <<all_data, total_processed, current>>
       ELSE /\ all_data' = Extend(all_data, r.enriched_tickets)
            /\ total_processed' = total_processed + Len(r.enriched_tickets)
            /\ IF AddDayOverflows(current)
               THEN /\ Raise("OverflowError")
                    /\ UNCHANGED current
               ELSE /\ current' = AddDay(current)
                    /\ pc' = "range"
                    /\ UNCHANGED <<exc, status>>

\* The rest of process_day (the article loop over tickets) and of the body of
\* the range loop: all_data.extend, total_processed, current += 1 day.
EnrichDay ==
    /\ pc = "articles"
    /\ \E r \in {ProcessTickets(profile, tickets)} : ApplyDay(r)
    /\ UNCHANGED <<start_date, end_date, shape, profile, end, visited, dayTotal,
                   all_tickets, page, use_range, pageReqs, tickets, csv, sinkCalls,
                   handlers>>

\* The range loop is over: write_tickets_to_csv(all_data) and the success
\* response.
Respond ==
    /\ pc = "range"
    /\ ~DateLeq(current, end)
    /\ csv' = write_tickets_to_csv(csv, all_data)
    /\ sinkCalls' = sinkCalls + 1
    /\ status' = 200
    /\ pc' = "response"
    /\ UNCHANGED <<start_date, end_date, shape, profile, current, end, all_data,
                   total_processed, visited, dayTotal, all_tickets, page,
                   use_range, pageReqs, tickets, enriched_tickets, calls,
                   articleReqs, lastReq, networkUsed, exc, handlers>>

Next == Validate \/ BeginDay \/ FetchPage \/ EnrichDay \/ Respond

Spec == Init /\ [][Next]_vars

\* A request for one day.
InitOneDay == Init /\ start_date = Iso(2024, 2, 28) /\ end_date = start_date

\* The handler is synchronous code on one thread and every page request
\* returns: an iteration of the pagination loop that can be taken is taken.
FairSpec == InitOneDay /\ [][Next]_vars /\ WF_vars(FetchPage)

-----------------------------------------------------------------------------
\* _make_request on its own: any method, any transport behaviour.

CallPayloads == {ListPayload(<<>>), ListPayload(<<PlainTicket(1)>>)}

InitCall ==
    /\ pc = "call"
    /\ \E m \in Methods, sc \in Scripts, pl \in CallPayloads :
          lastReq = [NoRequest EXCEPT !.method = m, !.script = sc, !.data = pl]
    /\ start_date = Iso(2025, 2, 28)
    /\ end_date = Iso(2025, 2, 28)
    /\ shape = "list"
    /\ profile = "plain"
    /\ InitCommon

MakeRequestCall ==
    /\ pc = "call"
    /\ lastReq' = [_make_request(lastReq.method, SearchEndpoint, None,
                                 lastReq.script, lastReq.data)
                    EXCEPT !.script = lastReq.script]
    /\ networkUsed' = (CountEv(lastReq'.trace, "send") > 0)
    /\ pc' = "returned"
    /\ UNCHANGED <<start_date, end_date, shape, profile, current, end, all_data,
                   total_processed, visited, dayTotal, all_tickets, page,
                   use_range, pageReqs, tickets, enriched_tickets, calls,
                   articleReqs, exc, status, csv, sinkCalls, handlers>>

NextCall == MakeRequestCall

SpecCall == InitCall /\ [][NextCall]_vars

-----------------------------------------------------------------------------
\* The endpoint under several clients.  get_ticket_data is a coroutine
\* (async def) run by the one event loop of the process; its body has no
\* await, and client.get and time.sleep block the thread of the loop.  A
\* handler is "pending" from the arrival of its request until the loop runs
\* it, "running" while it executes, "blocked" while a network call of its
\* _make_request is outstanding, and "done" once it has responded.

\* Network calls of one request that are followed.
MaxCalls == 2

\* Variant: def get_ticket_data, a plain function, which the framework runs
\* in a pool of threads: a handler starts whatever the others do.
MayRunInThreadPool(hs) == TRUE

\* The loop can run a pending handler: no handler holds the thread, as a
\* handler that has started gives it back only by returning.
MayRun(hs) == \A c \in DOMAIN hs : hs[c].at \notin {"running", "blocked"}

UnchangedRequest ==
    UNCHANGED <<pc, start_date, end_date, shape, profile, current, end, all_data,
                total_processed, visited, dayTotal, all_tickets, page, use_range,
                pageReqs, tickets, enriched_tickets, calls, articleReqs, lastReq,
                networkUsed, exc, status, csv, sinkCalls>>

InitLoop ==
    /\ pc = "serving"
    /\ lastReq = NoRequest
    /\ start_date = Iso(2025, 2, 28)
    /\ end_date = Iso(2025, 2, 28)
    /\ shape = "list"
    /\ profile = "plain"
    /\ InitCommon

\* The request of client c arrives and its handler is scheduled on the loop.
Arrive(c) ==
    /\ handlers[c].at = "idle"
    /\ handlers' = [handlers EXCEPT ![c].at = "pending"]
    /\ UnchangedRequest

\* The loop starts the handler of client c.
Dispatch(c) ==
    /\ handlers[c].at = "pending"
    /\ MayRun(handlers)
    /\ handlers' = [handlers EXCEPT ![c].at = "running"]
    /\ UnchangedRequest

\* The handler of client c enters self.client.get(...) in _make_request.
SendCall(c) ==
    /\ handlers[c].at = "running"
    /\ handlers[c].calls < MaxCalls
    /\ handlers' = [handlers EXCEPT ![c].at = "blocked", ![c].calls = @ + 1]
    /\ UnchangedRequest

\* client.get returns or raises in the handler of client c.
ReceiveCall(c) ==
    /\ handlers[c].at = "blocked"
    /\ handlers' = [handlers EXCEPT ![c].at = "running"]
    /\ UnchangedRequest

\* The handler of client c returns its response or raises HTTPException.
Finish(c) ==
    /\ handlers[c].at = "running"
    /\ handlers' = [handlers EXCEPT ![c].at = "done"]
    /\ UnchangedRequest

NextLoop ==
    \E c \in Clients :
        Arrive(c) \/ Dispatch(c) \/ SendCall(c) \/ ReceiveCall(c) \/ Finish(c)

SpecLoop == InitLoop /\ [][NextLoop]_vars

-----------------------------------------------------------------------------
\* The export file over several requests: each successful request ends with
\* write_tickets_to_csv(all_data) on the same settings.csv_path.

\* Successful requests that are followed.
MaxWrites == 3

\* A flattened record of ticket n with k articles, as process_day builds it.
SinkTicket(n, k) ==
    Enrich(Filtered(PlainTicket(n), S("Printer is broken")),
           [i \in 1..k |-> FilteredArticle([from_field |-> None, body |-> S("Hello")])])

\* The batches a request may hand to the sink: none, tickets without
\* articles, and tickets with one, two and three articles.
SinkBatches ==
    {<<>>,
     <<SinkTicket(1, 0)>>,
     <<SinkTicket(1, 2)>>,
     <<SinkTicket(1, 1), SinkTicket(2, 3)>>,
     <<SinkTicket(1, 0), SinkTicket(2, 0)>>}

InitSink ==
    /\ pc = "sink"
    /\ lastReq = NoRequest
    /\ start_date = Iso(2025, 2, 28)
    /\ end_date = Iso(2025, 2, 28)
    /\ shape = "list"
    /\ profile = "plain"
    /\ InitCommon

\* A request whose range loop gave all_data ends: write_tickets_to_csv(all_data).
WriteBatch ==
    /\ pc = "sink"
    /\ sinkCalls < MaxWrites
    /\ \E batch \in SinkBatches :
          /\ all_data' = batch
          /\ csv' = write_tickets_to_csv(csv, batch)
    /\ sinkCalls' = sinkCalls + 1
    /\ UNCHANGED <<pc, start_date, end_date, shape, profile, current, end,
                   total_processed, visited, dayTotal, all_tickets, page,
                   use_range, pageReqs, tickets, enriched_tickets, calls,
                   articleReqs, lastReq, networkUsed, exc, status, handlers>>

NextSink == WriteBatch

SpecSink == InitSink /\ [][NextSink]_vars

-----------------------------------------------------------------------------
\* Properties.

\* The raw ticket the remote holds under ticket id `id`.
RawOf(id) == RemoteTicket(profile, id.v \div 100, id.v % 100)

\* The raw tickets of the day being processed, by position.
DayRaw(i) == RemoteTicket(profile, Len(visited), i)

HasId(raw) == raw.id.t = "int"
TitleIsExactly(raw, text) == raw.title = S(text)

\* The pager has returned the tickets of the day being processed.
PagerReturned == pc = "articles"

\* C1: for a day holding T raw tickets, under each response shape, the pager
\* returns as many tickets as there are raw tickets that have an id and whose
\* title is not exactly the ignored title.
C1_RetainedCount ==
    PagerReturned =>
        Len(tickets) = Cardinality({i \in 1..dayTotal :
                          HasId(DayRaw(i)) /\ ~TitleIsExactly(DayRaw(i), IgnoredTitle)})

\* C2: the pagination loop of a day ends, with or without the fallback, and
\* never needs more search requests than the model follows.
C2_PaginationTerminates ==
    /\ [](pc = "paging" => Len(pageReqs) < MaxPageRequests)
    /\ ((pc = "paging") ~> (pc # "paging"))

\* The fallback was taken and the loop ended.
C2_Witness == pc = "articles" /\ ~use_range /\ Len(pageReqs) = 2

\* The exception the transport outcome `o` leads to.
ErrorOfOutcome(o) ==
    CASE o = "http_error"    -> "HTTPStatusError"
      [] o = "timeout"       -> "TimeoutException"
      [] o = "connect_error" -> "ConnectError"
      [] o = "decode_error"  -> "JSONDecodeError"
      [] OTHER               -> "none"

\* C3: a _make_request call makes at most two attempts and two transport
\* calls; the second attempt is made only after an HTTP error status or a
\* timeout of the first; a method other than GET gets one attempt and no
\* transport call; a failed call raises the error of its last attempt.
C3_AtMostOneRetry ==
    pc = "returned" =>
        /\ lastReq.attempts \in 1..2
        /\ CountEv(lastReq.trace, "send") <= 2
        /\ lastReq.attempts = 2 =>
              /\ Upper(lastReq.method) = "GET"
              /\ lastReq.script[1] \in {"http_error", "timeout"}
        /\ Upper(lastReq.method) # "GET" =>
              /\ lastReq.attempts = 1
              /\ CountEv(lastReq.trace, "send") = 0
              /\ lastReq.exc = "ValueError"
        /\ (Upper(lastReq.method) = "GET" /\ ~lastReq.ok) =>
              lastReq.exc = ErrorOfOutcome(lastReq.script[lastReq.attempts])
        /\ (Upper(lastReq.method) = "GET" /\ lastReq.ok) =>
              lastReq.script[lastReq.attempts] = "ok"

\* A call was retried and its second attempt failed too.
C3_Witness ==
    /\ pc = "returned"
    /\ lastReq.attempts = 2
    /\ ~lastReq.ok
    /\ lastReq.exc = "TimeoutException"

\* The article request for ticket `id` does not give a list of articles:
\* its last attempt fails, or its payload is no list or does not parse.
ArticleFetchFails(req, id) ==
    \/ ~req.ok
    \/ ArticlePayload(profile, id.v).type # "list"
    \/ ~TicketArticlesResponseValidates(ArticlePayload(profile, id.v))

\* C4: a ticket whose article request fails is still emitted by process_day,
\* with its declared article_count and no from_i/body_i column, and the day
\* is not failed by it.
C4_ArticleFailureAbsorbed ==
    \A i \in 1..Len(articleReqs) :
        ArticleFetchFails(articleReqs[i], calls[i]) =>
            /\ i <= Len(enriched_tickets)
            /\ enriched_tickets[i].id = calls[i]
            /\ enriched_tickets[i].article_count = tickets[i].article_count
            /\ DOMAIN enriched_tickets[i].cols = {}

\* The last search request of the day failed on its final attempt.
PageRequestFailed ==
    pc = "response" /\ lastReq.endpoint = SearchEndpoint /\ ~lastReq.ok

\* C5: a search request that fails on its final attempt ends the request with
\* a server-side error (500) carrying that failure; no later day is
\* processed and the sink is not called.
C5_PageFailureIs500 ==
    PageRequestFailed =>
        /\ status = 500
        /\ sinkCalls = 0
        /\ exc = lastReq.exc

\* C6: the response is a client-input error (400) exactly when the date
\* validation fails, and then no network call was made.
C6_ClientErrorIffValidation ==
    pc = "response" =>
        /\ (status = 400) <=> (TicketQuery(start_date, end_date) # "ok")
        /\ status = 400 => ~networkUsed

\* Every ticket record held by the pager, the day processor or the batch.
OutputRecords ==
    {all_tickets[i] : i \in 1..Len(all_tickets)}
    \cup {tickets[i] : i \in 1..Len(tickets)}
    \cup {[f \in {"id", "state", "title", "article_count"} |-> enriched_tickets[i][f]] :
             i \in 1..Len(enriched_tickets)}
    \cup {[f \in {"id", "state", "title", "article_count"} |-> all_data[i][f]] :
             i \in 1..Len(all_data)}

\* C7: no ticket whose raw title is exactly the ignored title is in the result
\* of the pager, of the day processor or in the batch, and a full page loses
\* exactly its ignored and id-less tickets.
C7_IgnoredTitleAbsent ==
    /\ \A t \in OutputRecords :
          /\ t.title # S(IgnoredTitle)
          /\ ~TitleIsExactly(RawOf(t.id), IgnoredTitle)
    /\ (PagerReturned /\ shape = "list" /\ dayTotal = limit) =>
          Len(tickets) = limit - Cardinality({i \in 1..limit :
                             \/ Strip(Get(DayRaw(i).title, S(""))) = S(IgnoredTitle)
                             \/ ~HasId(DayRaw(i))})

\* A full page with ignored titles on it went through the filter.
C7_Witness ==
    /\ PagerReturned
    /\ profile = "mixed"
    /\ shape = "list"
    /\ dayTotal = limit
    /\ Len(tickets) > 0
    /\ Len(tickets) < limit

\* The raw title is empty, whitespace only, absent or null.
BlankTitle(raw) ==
    \/ raw.title.t \in {"absent", "null"}
    \/ raw.title.t = "str" /\ raw.title.core = ""

\* C8: a raw ticket with an id and a blank title is returned by the pager with
\* the title "No Title", and the day never fails because of a title.
C8_BlankTitleKept ==
    /\ exc # "AttributeError"
    /\ (PagerReturned /\ shape = "list") =>
          \A i \in 1..dayTotal :
              (HasId(DayRaw(i)) /\ BlankTitle(DayRaw(i))) =>
                  \E j \in 1..Len(tickets) :
                      tickets[j].id = DayRaw(i).id /\ tickets[j].title = S(NoTitle)

\* Flattened records held by the day processor or the batch.
FlatRecords ==
    {enriched_tickets[i] : i \in 1..Len(enriched_tickets)}
    \cup {all_data[i] : i \in 1..Len(all_data)}

\* The articles of the remote's answer for ticket `id` that have a body which
\* is a non-empty string.
ArticlesWithBody(id) ==
    {k \in 1..Len(ArticlePayload(profile, id.v).items) :
        LET b == ArticlePayload(profile, id.v).items[k].body
        IN  b.t = "str" /\ ~IsEmptyStr(b)}

\* C9: in a flattened record every body_i column is a non-empty string, and
\* there are no more from_i/body_i pairs than articles with such a body.
C9_NoEmptyBodyColumn ==
    \A rec \in FlatRecords :
        /\ \A key \in DOMAIN rec.cols :
              key[1] = "body" =>
                  rec.cols[key].t = "str" /\ ~IsEmptyStr(rec.cols[key])
        /\ FromCount(rec) <= Cardinality(ArticlesWithBody(rec.id))
        /\ Cardinality(DOMAIN rec.cols) = 2 * FromCount(rec)

\* A ticket whose answer holds articles with an empty and with an absent body
\* was flattened, and kept its one article with a body.
C9_Witness ==
    \E rec \in FlatRecords :
        /\ profile = "mixed"
        /\ ArticleKind(profile, rec.id.v) = 1
        /\ FromCount(rec) = 1

\* C10: the dates passed to process_day are consecutive calendar days from
\* the start date on, none after the end date; a request that succeeds has
\* passed every day of the range, once.
C10_EachDayOnceInOrder ==
    /\ \A i \in 1..Len(visited) :
          /\ StrptimeOk(visited[i])
          /\ MatchesDatePattern(visited[i])
          /\ Ordinal(Strptime(visited[i])) = Ordinal(Strptime(start_date)) + i - 1
          /\ Ordinal(Strptime(visited[i])) <= Ordinal(Strptime(end_date))
    /\ status = 200 =>
          Len(visited) = Ordinal(Strptime(end_date)) - Ordinal(Strptime(start_date)) + 1

\* A range of MaxDays days was processed to the end.
C10_Witness == status = 200 /\ Len(visited) = MaxDays /\ visited[1] # visited[MaxDays]

\* The number of days of the requested range.
DaysOfRange == Ordinal(Strptime(end_date)) - Ordinal(Strptime(start_date)) + 1

\* The day (position in the range) a ticket id belongs to.
DayOfId(id) == id.v \div 100

\* C11: write_tickets_to_csv is called at most once per request, only by a
\* request that has processed every day of its range without an exception,
\* and with the day results concatenated in day order; a request that is
\* aborted leaves the export file as it was, whatever the earlier days gave.
C11_SinkOnceAfterAllDays ==
    /\ [](/\ sinkCalls <= 1
          /\ status = 200 <=> sinkCalls = 1
          /\ sinkCalls = 1 =>
                /\ exc = "none"
                /\ Len(visited) = DaysOfRange
                /\ Len(csv.lines) = IF Len(all_data) = 0 THEN 0 ELSE Len(all_data) + 1
          /\ sinkCalls = 0 => csv = NoFile
          /\ \A i, j \in 1..Len(all_data) :
                i < j => DayOfId(all_data[i].id) <= DayOfId(all_data[j].id))
    /\ [][(pc = "articles" /\ pc' = "range") =>
              all_data' = all_data \o enriched_tickets']_vars

\* A range of two days that both gave tickets was processed and exported.
C11_Witness ==
    /\ status = 200
    /\ sinkCalls = 1
    /\ Len(visited) = 2
    /\ \E i, j \in 1..Len(all_data) :
          DayOfId(all_data[i].id) = 1 /\ DayOfId(all_data[j].id) = 2

\* The page_data that get_tickets_for_date returned for the i-th search
\* request of the day being processed, when that request succeeded.
PageData(i) ==
    TicketsOfResponse(RemoteSearch(shape, profile, Len(visited), dayTotal,
                                   pageReqs[i].params))

\* The i-th search request of the day returned (only the last one may fail).
PageOk(i) ==
    \/ i < Len(pageReqs)
    \/ ~(pc = "response" /\ lastReq.endpoint = SearchEndpoint /\ ~lastReq.ok)

\* The i-th search request of the day is a fallback request: page 1 asked
\* with use_range switched off.
IsFallback(i) == ~pageReqs[i].use_range /\ pageReqs[i].params.page = 1

\* C12: a day has at most one fallback request; it is the second request of
\* the day and follows an empty page 1 of the initial query; an empty first
\* page is always followed by it; an empty fallback page ends the loop with
\* no ticket; any other empty page ends the loop without a fallback.
C12_OneFallback ==
    /\ Cardinality({i \in 1..Len(pageReqs) : IsFallback(i)}) <= 1
    /\ \A i \in 1..Len(pageReqs) :
          /\ IsFallback(i) =>
                /\ i = 2
                /\ pageReqs[1].use_range
                /\ pageReqs[1].params.page = 1
                /\ PageData(1) = <<>>
          /\ (i < Len(pageReqs) /\ PageData(i) = <<>>) => i = 1
    /\ (Len(pageReqs) >= 1 /\ PageOk(1) /\ PageData(1) = <<>>) =>
          \/ pc = "paging" /\ Len(pageReqs) = 1 /\ ~use_range /\ page = 1
          \/ Len(pageReqs) >= 2 /\ IsFallback(2)
    /\ (Len(pageReqs) >= 2 /\ IsFallback(2) /\ PageOk(2) /\ PageData(2) = <<>>) =>
          /\ Len(pageReqs) = 2
          /\ all_tickets = <<>>
          /\ pc # "paging"
    /\ (PagerReturned /\ Len(pageReqs) >= 1 /\ PageData(1) = <<>>) =>
          Len(pageReqs) = 2 /\ tickets = <<>>

\* The remote holds no ticket for the day: the first page was empty, the
\* fallback was requested once, was empty too, and the pager returned.
C12_Witness ==
    /\ PagerReturned
    /\ shape = "list"
    /\ dayTotal = 0
    /\ Len(pageReqs) = 2
    /\ IsFallback(2)
    /\ tickets = <<>>

\* Position of the last transport call in the trace of the last request.
LastSend ==
    CHOOSE i \in 1..Len(lastReq.trace) :
        /\ lastReq.trace[i][1] = "send"
        /\ \A j \in (i + 1)..Len(lastReq.trace) : lastReq.trace[j][1] # "send"

\* C13: a _make_request call that returns has slept 1/RpsPerSecond second
\* between its last transport call and its return, as the last thing it did;
\* an attempt that fails is followed by no rate-limit sleep, and only by the
\* wait_fixed backoff when it is retried.
C13_RateLimitAfterSuccessOnly ==
    pc = "returned" =>
        /\ lastReq.ok =>
              /\ lastReq.trace[Len(lastReq.trace)] = <<"rate_limit", lastReq.attempts>>
              /\ Slept(lastReq.trace, LastSend) = 1
              /\ CountEv(lastReq.trace, "rate_limit") = 1
        /\ ~lastReq.ok => CountEv(lastReq.trace, "rate_limit") = 0
        /\ \A n \in 1..lastReq.attempts :
              (\E i \in 1..Len(lastReq.trace) : lastReq.trace[i] = <<"rate_limit", n>>)
                  <=> (Upper(lastReq.method) = "GET" /\ lastReq.script[n] = "ok")
        /\ CountEv(lastReq.trace, "wait") = lastReq.attempts - 1
        /\ Slept(lastReq.trace, 1) =
              (lastReq.attempts - 1) * wait_fixed * RpsPerSecond
              + (IF lastReq.ok THEN 1 ELSE 0)

\* A call failed once without a rate-limit sleep, waited, and then succeeded
\* and slept before returning.
C13_Witness ==
    /\ pc = "returned"
    /\ lastReq.ok
    /\ lastReq.script[1] = "http_error"
    /\ lastReq.trace = <<<<"send", 1>>, <<"fail", 1>>, <<"wait", 1>>,
                         <<"send", 2>>, <<"rate_limit", 2>>>>
    /\ Slept(lastReq.trace, 1) = RpsPerSecond + 1

\* What a _make_request call gives its caller: the data, or the exception.
ResultOf(r) == [ok |-> r.ok, exc |-> r.exc, data |-> r.data]

\* The transport fails the first attempt with an HTTP error status or a
\* timeout and answers the second.
FailsOnceThenSucceeds(script) ==
    script[1] \in {"http_error", "timeout"} /\ script[2] = "ok"

\* The transport answers every attempt.
ImmediateSuccess == [n \in 1..stop_after_attempt |-> "ok"]

\* C14: a GET call whose transport fails once with an HTTP error status or a
\* timeout and then succeeds gives its caller what a call with an immediate
\* success gives, which is the payload of the transport, after exactly two
\* attempts and one wait.
C14_RetryIsTransparent ==
    [][(/\ pc = "call"
        /\ Upper(lastReq.method) = "GET"
        /\ FailsOnceThenSucceeds(lastReq.script)) =>
           /\ ResultOf(lastReq') =
                 ResultOf(_make_request(lastReq.method, SearchEndpoint, None,
                                        ImmediateSuccess, lastReq.data))
           /\ lastReq'.ok
           /\ lastReq'.data = lastReq.data
           /\ lastReq'.attempts = 2
           /\ CountEv(lastReq'.trace, "send") = 2
           /\ CountEv(lastReq'.trace, "wait") = 1]_vars

\* A call returned a page of one ticket on its second attempt, after a
\* timeout of the first.
C14_Witness ==
    /\ pc = "returned"
    /\ lastReq.script = <<"timeout", "ok">>
    /\ lastReq.ok
    /\ lastReq.attempts = 2
    /\ lastReq.data = ListPayload(<<PlainTicket(1)>>)

\* Handlers with a network call outstanding, and handlers that have started
\* and not responded.
Outstanding == {c \in Clients : handlers[c].at = "blocked"}
Started == {c \in Clients : handlers[c].at \in {"running", "blocked"}}

\* C15: at most one network call is outstanding at any time, whatever
\* requests have arrived; at most one handler has started and not responded,
\* so a request makes all its network calls before any call of a request
\* started after it, and a request that waits has made none.
C15_OneOutstandingCall ==
    /\ Cardinality(Outstanding) <= 1
    /\ Cardinality(Started) <= 1
    /\ \A c \in Clients :
          handlers[c].at \in {"idle", "pending"} => handlers[c].calls = 0

\* A network call is outstanding while a second request waits for the loop
\* and a third has been served.
C15_Witness ==
    \E a, b, c \in Clients :
        /\ handlers[a].at = "blocked"
        /\ handlers[b].at = "pending"
        /\ handlers[c].at = "done"
        /\ handlers[c].calls = MaxCalls

\* The article loop of process_day has ended for the day last processed.
ArticleLoopEnded == pc \in {"range", "response"}

\* C16: the ticket ids passed to get_articles_for_ticket are the ids of the
\* pager's tickets, in pager order, one call and one request each; when the
\* article loop has ended every ticket of the pager has had its call; no call
\* is made for a raw ticket with the ignored title or without id, nor before
\* the pager has returned; 51 retained tickets give 51 calls.
C16_OneArticleFetchPerTicket ==
    /\ Len(calls) <= Len(tickets)
    /\ \A i \in 1..Len(calls) :
          /\ calls[i] = tickets[i].id
          /\ HasId(RawOf(calls[i]))
          /\ ~TitleIsExactly(RawOf(calls[i]), IgnoredTitle)
    /\ Len(articleReqs) = Len(calls)
    /\ pc = "paging" => calls = <<>> /\ articleReqs = <<>>
    /\ ArticleLoopEnded => Len(calls) = Len(tickets)
    /\ (ArticleLoopEnded /\ Len(tickets) = limit + 1) => Len(calls) = limit + 1

\* The body of the answer to the i-th search request of the day.
PagePayload(i) ==
    RemoteSearch(shape, profile, Len(visited), dayTotal, pageReqs[i].params)

\* C17: the pager never returns normally from a day on which a search answer
\* was not a list, unless the tickets that answer carried were taken as they
\* were (best effort): such an answer fails the day, it is not read as an
\* empty page.
C17_UninterpretablePageNotEmpty ==
    PagerReturned =>
        \A i \in 1..Len(pageReqs) :
            PagePayload(i).type # "list" => PageData(i) = PagePayload(i).items

\* The raw article has a body that is a non-empty string.
HasBody(raw) == raw.body.t = "str" /\ ~IsEmptyStr(raw.body)

\* The articles of the remote's answer for ticket `id` that have such a body,
\* in the order of the answer.
RetainedRaw(id) == SelectSeq(ArticlePayload(profile, id.v).items, HasBody)

\* The article request for ticket `id` gives a list of articles that parses.
ArticleFetchOk(id) ==
    /\ _make_request("GET", ArticlesEndpoint(id), None,
                     ArticleScript(profile, id.v), ArticlePayload(profile, id.v)).ok
    /\ ArticlePayload(profile, id.v).type = "list"
    /\ TicketArticlesResponseValidates(ArticlePayload(profile, id.v))

\* C18: the columns of a flattened record are from_i and body_i for i in
\* 1..N; N is the number of articles with a non-empty body in the answer to
\* the ticket's article request (0 when that request failed); body_i is the
\* body of the i-th of them in the order of the answer; id, state, title and
\* article_count are those of the pager's ticket.
C18_ColumnsInFetchOrder ==
    /\ \A rec \in FlatRecords :
          /\ DOMAIN rec.cols = {"from", "body"} \X (1..FromCount(rec))
          /\ FromCount(rec) =
                IF ArticleFetchOk(rec.id) THEN Len(RetainedRaw(rec.id)) ELSE 0
          /\ \A i \in 1..FromCount(rec) :
                rec.cols[<<"body", i>>] = RetainedRaw(rec.id)[i].body
    /\ Len(enriched_tickets) <= Len(tickets)
    /\ \A i \in 1..Len(enriched_tickets) :
          /\ enriched_tickets[i].id = tickets[i].id
          /\ enriched_tickets[i].state = tickets[i].state
          /\ enriched_tickets[i].title = tickets[i].title
          /\ enriched_tickets[i].article_count = tickets[i].article_count

\* A ticket whose answer holds four articles, the first without body, was
\* flattened into three pairs of columns.
C18_Witness ==
    \E rec \in FlatRecords :
        /\ profile = "mixed"
        /\ ArticleKind(profile, rec.id.v) = 9
        /\ FromCount(rec) = 3
        /\ rec.cols[<<"body", 3>>] = S("Named")

\* C19: the fallback request of a day does not carry the query parameters of
\* the day-exact page-1 request it follows.
C19_FallbackQueryDiffers ==
    \A i \in 1..Len(pageReqs) :
        IsFallback(i) => pageReqs[i].params # pageReqs[1].params

\* An article of the remote's answer has a sender: its `from` is a string
\* that is not empty.
HasSender(raw) == raw.from.t = "str" /\ ~IsEmptyStr(raw.from)

\* C20: in a flattened record, from_i is the `from` value the remote returned
\* for the i-th retained article when it returned one, and "Unknown" only
\* when it returned none.
C20_SenderKept ==
    \A rec \in FlatRecords :
        \A i \in 1..FromCount(rec) :
            LET raw == RetainedRaw(rec.id)[i]
            IN  /\ HasSender(raw) => rec.cols[<<"from", i>>] = raw.from
                /\ rec.cols[<<"from", i>>] = S(UnknownSender) => ~HasSender(raw)

\* The tickets fetch_all_tickets_for_date has accumulated or returned.
PagerTickets ==
    {all_tickets[i] : i \in 1..Len(all_tickets)}
    \cup {tickets[i] : i \in 1..Len(tickets)}

\* The raw ticket carries no article count: the key is absent or null.
NoArticleCount(raw) == raw.article_count.t \in {"absent", "null"}

\* C21: every ticket of the pager has an integer article_count, 0 when the
\* raw ticket carries none, and the count check of process_day never raises:
\* no request ends with a TypeError.
C21_ArticleCountNumeric ==
    /\ \A t \in PagerTickets :
          /\ t.article_count.t = "int"
          /\ NoArticleCount(RawOf(t.id)) => t.article_count = Int_(0)
    /\ exc # "TypeError"

\* The header rows of the export file.
HeaderRows == {i \in 1..Len(csv.lines) : csv.lines[i].kind = "header"}

\* The export file has one header row, its first line, once it has any line.
OneHeaderFirst ==
    /\ csv.exists <=> Len(csv.lines) > 0
    /\ Len(csv.lines) > 0 => HeaderRows = {1}
    /\ (sinkCalls = 1 /\ all_data = <<>>) => csv = NoFile

\* C22: after any sequence of writes to the same file, the file has exactly
\* one header row, written by the first write of a batch that is not empty,
\* and every data row has as many columns as that header.
C22_OneHeaderUniformWidth ==
    /\ OneHeaderFirst
    /\ \A i \in 1..Len(csv.lines) : csv.lines[i].width = csv.lines[1].width

====
